---- MODULE Spec2Model ----
(***************************************************************************)
(* Credential verification and account lockout of the Author / User        *)
(* accounts (models/author.model.js, services/admin/author.service.js,     *)
(* middlewares/author.auth.middleware.js), and the records an              *)
(* administrator manages: authors, users and categories.  The login path   *)
(* of the User model and service is a line-for-line copy of the Author     *)
(* one, so one account collection is modelled for it; userSchema has no    *)
(* isDeleted path, so the users have a collection of their own where the   *)
(* soft delete is concerned.                                               *)
(*                                                                         *)
(* Specifications: Spec handles every request in one step; SpecAccounts    *)
(* adds the admin's login and logout (services/admin/admin.service.js) to  *)
(* it; SpecLogins splits loginAuthor at its store operations and lets      *)
(* calls overlap, and SpecLockout does so on an account with failed        *)
(* attempts behind it; SpecIdentity lets createAuthor calls overlap;       *)
(* SpecContent creates, reads, updates and soft-deletes authors and        *)
(* categories; SpecUsers does so with users.                               *)
(*                                                                         *)
(* Time.  Date.now() counts milliseconds, which do not fit the integers of *)
(* the model checker, so the clock counts ticks of 2*60*60*1000 ms (two    *)
(* hours, the unit of the lock fallback).  A Date is [t |-> "date", n |->  *)
(* ticks since the epoch].                                                 *)
(***************************************************************************)
EXTENDS Integers, Sequences, FiniteSets, TLC

\* 2 * 60 * 60 * 1000: the milliseconds of one tick.
TWO_HOURS_MS == 7200000

\* The same literal as a number of ticks.
TWO_HOURS == TWO_HOURS_MS \div TWO_HOURS_MS

\* The literal 5 of the threshold expression.
FIVE == 5

\* The largest time value of a Date, 8.64e15 ms, in ticks.
MAX_DATE == 1200000000

\* The clock reading when the process starts (late 2023, in ticks).
StartTime == 236000

\* How many ticks the clock advances one at a time.
MaxClock == 1

\* How many login requests overlap.
MaxRequests == 2

\* Caps on the counters and collections the code leaves unbounded.
MaxAccounts == 1
MaxAttempts == 5
MaxHistory == 1
MaxCategories == 1
MaxUsers == 2

\* ACCESS_TOKEN_EXPIRY and REFRESH_TOKEN_EXPIRY, in ticks.
AccessTTL == 2
RefreshTTL == 4

Emails == {"e1", "e2"}
Phones == {"ph1"}
TwoPhones == {"ph1", "ph2"}
Passwords == {"p1", "p2"}

-----------------------------------------------------------------------------
(* JavaScript values, as far as the lockout expressions use them.          *)

Undefined == [t |-> "undefined"]
JsNull == [t |-> "null"]
NaN == [t |-> "NaN"]
Num(n) == [t |-> "number", n |-> n]
Bool(b) == [t |-> "boolean", b |-> b]
DateVal(n) == [t |-> "date", n |-> n]

\* A string of decimal digits.  pre is <<>> or <<n>>, the digits of the
\* millisecond clock reading of tick n; s are the digits after it.
Str(pre, s) == [t |-> "string", pre |-> pre, s |-> s]

RECURSIVE DigitsValue(_)
DigitsValue(s) ==
  IF s = <<>> THEN 0
  ELSE 10 * DigitsValue(SubSeq(s, 1, Len(s) - 1)) + s[Len(s)]

\* n * 10^k, saturating just above MAX_DATE.
RECURSIVE Shift(_, _)
Shift(n, k) ==
  IF k = 0 THEN n
  ELSE IF n > MAX_DATE \div 10 THEN MAX_DATE + 1
  ELSE Shift(n * 10, k - 1)

\* Boolean(x)
Truthy(x) ==
  CASE x.t = "boolean" -> x.b
    [] x.t = "number" -> x.n # 0
    [] x.t = "string" -> x.pre # <<>> \/ x.s # <<>>
    [] x.t = "date" -> TRUE
    [] OTHER -> FALSE

\* Number(x)
ToNumber(x) ==
  CASE x.t = "number" -> x
    [] x.t = "string" /\ x.pre = <<>> -> Num(DigitsValue(x.s))
    [] x.t = "boolean" -> Num(IF x.b THEN 1 ELSE 0)
    [] x.t = "null" -> Num(0)
    [] OTHER -> NaN

\* a >= b
JsGe(a, b) ==
  LET x == ToNumber(a)
      y == ToNumber(b)
  IN  Bool(x.t = "number" /\ y.t = "number" /\ x.n >= y.n)

\* a || b
JsOr(a, b) == IF Truthy(a) THEN a ELSE b

\* a + b for a number a: arithmetic with undefined gives NaN, a string
\* operand makes it a concatenation of the decimal digits.
JsPlus(a, b) ==
  CASE b.t = "string" -> Str(<<a.n>>, b.s)
    [] b.t = "number" -> Num(a.n + b.n)
    [] b.t = "null" -> a
    [] OTHER -> NaN

\* Mongoose's cast of an update value to the Date type of the schema path:
\* [ok |-> FALSE] is a CastError.  A number is a time value (in ticks); a
\* numeric string is the time value its digits spell in milliseconds; a
\* value beyond the Date range is an Invalid Date, which the cast refuses.
CastDate(x) ==
  CASE x.t = "null" \/ x.t = "undefined" -> [ok |-> TRUE, v |-> JsNull]
    [] x.t = "date" -> [ok |-> TRUE, v |-> x]
    [] x.t = "number" ->
         IF x.n <= MAX_DATE THEN [ok |-> TRUE, v |-> DateVal(x.n)]
         ELSE [ok |-> FALSE, v |-> JsNull]
    [] x.t = "string" ->
         IF x.pre = <<>> /\ x.s = <<>> THEN [ok |-> TRUE, v |-> JsNull]
         ELSE LET hi == IF x.pre = <<>> THEN 0 ELSE Shift(x.pre[1], Len(x.s))
                  n == hi + (DigitsValue(x.s) \div TWO_HOURS_MS)
              IN  IF n <= MAX_DATE THEN [ok |-> TRUE, v |-> DateVal(n)]
                  ELSE [ok |-> FALSE, v |-> JsNull]
    [] OTHER -> [ok |-> FALSE, v |-> JsNull]

-----------------------------------------------------------------------------
(* process.env: strings, or undefined when the variable is not set.        *)

EnvMaxLoginAttempts == {Undefined, Str(<<>>, <<3>>)}
EnvLockTime == {Undefined, Str(<<>>, <<0>>), Str(<<>>, <<7, 2, 0, 0, 0, 0, 0>>)}

\* The configurations tried: nothing set; a lock time in milliseconds; a
\* threshold with a one-digit lock time.
EnvConfigs ==
  {e \in [MAX_LOGIN_ATTEMPTS : EnvMaxLoginAttempts, LOCK_TIME : EnvLockTime] :
     e.MAX_LOGIN_ATTEMPTS = Undefined <=> e.LOCK_TIME # Str(<<>>, <<0>>)}

\* env     process.env (MAX_LOGIN_ATTEMPTS, LOCK_TIME)
\* now     Date.now(), in ticks
\* db      the Author collection: a sequence of documents, _id = index
\* held    the access token the client holds: the last one a login returned
\* resp    the request handled last and its outcome, while the clock still
\*         shows the time of that request
\* stale   history: the password of held's account was changed at a later
\*         tick than the one held was issued at
\* reqs    the requests in progress when requests overlap: for each, how far
\*         it has come and what it holds in memory
\* admins  the Admin collection, _id = index
\* users   the User collection, _id = index
\* cats    the Category collection, _id = index
VARIABLES env, now, db, held, resp, stale, reqs, admins, users, cats

vars == <<env, now, db, held, resp, stale, reqs, admins, users, cats>>

-----------------------------------------------------------------------------
(* Documents of authorSchema.                                              *)

\* bcrypt.hash(p, salt): a digest that is not the plaintext.
Hash(p) == [bcrypt |-> p]

\* A password stored as it was given.
Plain(p) == [plain |-> p]

\* The schema paths declared with select: false.
SelectFalse ==
  {"password", "passwordChangedAt", "loginAttempts", "lockUntil", "refreshToken"}

\* A query result: the paths in hidden are not loaded (undefined).
Project(doc, hidden) ==
  [f \in DOMAIN doc |-> IF f \in hidden THEN Undefined ELSE doc[f]]

\* Author.create(data): schema defaults, then pre("save") hashes the password
\* and stamps passwordChangedAt.
NewAuthor(data) ==
  [email |-> data.email,
   phone |-> data.phone,
   password |-> Hash(data.password),
   passwordChangedAt |-> DateVal(now),
   loginHistory |-> <<>>,
   loginAttempts |-> 0,
   lockUntil |-> Undefined,
   isVerified |-> data.isVerified,
   isActive |-> data.isActive,
   refreshToken |-> Undefined,
   lastActive |-> Undefined,
   isDeleted |-> FALSE]

\* bcrypt.compare(candidatePassword, this.password)
ComparePassword(doc, candidatePassword) == doc.password = Hash(candidatePassword)

\* jwt.sign: iat is the clock reading, exp = iat + expiresIn.
GenerateAccessToken(id, doc) ==
  [kind |-> "access", _id |-> id, email |-> doc.email, role |-> "author",
   iat |-> now, exp |-> now + AccessTTL]

GenerateRefreshToken(id, doc) ==
  [kind |-> "refresh", _id |-> id, iat |-> now, exp |-> now + RefreshTTL]

NoTokens == [kind |-> "none"]

ChangedPasswordAfter(doc, JWTTimestamp) ==
  IF Truthy(doc.passwordChangedAt)
  THEN JWTTimestamp < doc.passwordChangedAt.n
  ELSE FALSE

\* Mutants of isAccountLocked: the comparison reversed; the expiry forgotten.
IsAccountLockedReversed(doc) == Truthy(doc.lockUntil) /\ doc.lockUntil.n < now
IsAccountLockedNoExpiry(doc) == Truthy(doc.lockUntil)

\* isAccountLocked: this.lockUntil && this.lockUntil > Date.now()
IsAccountLocked(doc) == Truthy(doc.lockUntil) /\ doc.lockUntil.n > now

\* The update document incrementLoginAttempts builds for an unlocked account.
IncrementUpdates(doc) ==
  LET reached == JsOr(JsGe(Num(doc.loginAttempts + 1), env.MAX_LOGIN_ATTEMPTS),
                      Num(FIVE))
      until == JsOr(JsPlus(Num(now), env.LOCK_TIME), Num(TWO_HOURS))
  IN  [inc |-> 1, setLock |-> Truthy(reached), lockUntil |-> until]

\* doc.updateOne(updates) on the stored document id: the update is cast, and
\* applied as a whole or not at all.
UpdateOne(d, id, updates) ==
  LET cast == IF updates.setLock THEN CastDate(updates.lockUntil)
              ELSE [ok |-> TRUE, v |-> d[id].lockUntil]
  IN  IF ~cast.ok THEN [ok |-> FALSE, db |-> d]
      ELSE [ok |-> TRUE,
            db |-> [d EXCEPT ![id].loginAttempts = @ + updates.inc,
                             ![id].lockUntil = cast.v]]

\* resetLoginAttempts: $set {loginAttempts: 0, lockUntil: null}
ResetLoginAttempts(d, id) ==
  [d EXCEPT ![id].loginAttempts = 0, ![id].lockUntil = JsNull]

\* Mutant of recordLogin: the save writes the whole document as the request
\* loaded it, the lockout counters included.
RecordLoginWholeDoc(d, id, deviceInfo, ipAddress) ==
  [d EXCEPT ![id].loginHistory =
              Append(@, [device |-> deviceInfo, ipAddress |-> ipAddress,
                         timestamp |-> DateVal(now)]),
            ![id].lastActive = DateVal(now),
            ![id].loginAttempts = db[id].loginAttempts,
            ![id].lockUntil = db[id].lockUntil]

\* Mutant of recordLogin: the entry is assigned, not pushed.
RecordLoginReplaces(d, id, deviceInfo, ipAddress) ==
  [d EXCEPT ![id].loginHistory =
              <<[device |-> deviceInfo, ipAddress |-> ipAddress,
                 timestamp |-> DateVal(now)]>>,
            ![id].lastActive = DateVal(now)]

\* recordLogin: push a history entry, stamp lastActive, save the modified paths.
RecordLogin(d, id, deviceInfo, ipAddress) ==
  [d EXCEPT ![id].loginHistory =
              Append(@, [device |-> deviceInfo, ipAddress |-> ipAddress,
                         timestamp |-> DateVal(now)]),
            ![id].lastActive = DateVal(now)]

\* Mutant of the refresh-token save: a token already stored is kept.
SaveRefreshTokenIfNone(d, id, refreshToken) ==
  IF d[id].refreshToken \in {Undefined, JsNull}
  THEN [d EXCEPT ![id].refreshToken = refreshToken]
  ELSE d

\* author.refreshToken = refreshToken; author.save(): the one modified path
\* is written.
SaveRefreshToken(d, id, refreshToken) ==
  [d EXCEPT ![id].refreshToken = refreshToken]

-----------------------------------------------------------------------------
(* Responses.  status and message are what the error middleware or the     *)
(* controller sends; id is the account of a successful request; tokens are *)
(* the tokens returned (or the token presented to verifyJWT); compared     *)
(* tells whether comparePassword ran; email and password are the login     *)
(* request's body; found are the _ids of the documents a list request      *)
(* returned.                                                               *)

Response(op, status, message, id, tokens, compared) ==
  [op |-> op, status |-> status, message |-> message, id |-> id,
   tokens |-> tokens, compared |-> compared, email |-> "", password |-> "",
   found |-> {}]

NoResponse == Response("none", 0, "", 0, NoTokens, FALSE)

\* Mutant of the gates: the isVerified check left out.
LoginGateNoVerified(author) == IF ~author.isActive THEN "inactive" ELSE "ok"

\* The gates of loginAuthor behind findByCredentials.
LoginGate(author) ==
  IF ~author.isActive THEN "inactive"
  ELSE IF ~author.isVerified THEN "unverified"
  ELSE "ok"

\* The documents a filter matches, as _ids; findOne returns the first.
First(S) == IF S = {} THEN 0 ELSE CHOOSE i \in S : \A j \in S : i <= j

\* this.findOne({ email, isActive: true })
FindForLogin(d, email) ==
  First({i \in 1..Len(d) : d[i].email = email /\ d[i].isActive = TRUE})

\* findOne({ _id: id, isDeleted: { $ne: true } })
FindNotDeleted(d, id) ==
  First({i \in 1..Len(d) : i = id /\ d[i].isDeleted # TRUE})

\* findById(id)
FindById(d, id) == First({i \in 1..Len(d) : i = id})

\* Author.findByCredentials(email, password).  id = 0 is the null result,
\* threw is a rejected updateOne; doc is the document as it was loaded.
FindByCredentials(d, email, password) ==
  LET id == FindForLogin(d, email)
      none == [id |-> 0, doc |-> Undefined, db |-> d, threw |-> FALSE,
               compared |-> FALSE]
  IN  IF id = 0 THEN none
      ELSE LET author == Project(d[id], {"passwordChangedAt", "refreshToken"})
           IN  IF IsAccountLocked(author) THEN none
               ELSE IF ~ComparePassword(author, password)
               THEN LET upd == UpdateOne(d, id, IncrementUpdates(author))
                    IN  [none EXCEPT !.db = upd.db, !.threw = ~upd.ok,
                                     !.compared = TRUE]
               ELSE [id |-> id, doc |-> author, db |-> ResetLoginAttempts(d, id),
                     threw |-> FALSE, compared |-> TRUE]

\* loginAuthor, with the controller's mapping of its result.
LoginAuthor(email, password, deviceInfo, ipAddress) ==
  LET found == FindByCredentials(db, email, password)
      request(r) == [r EXCEPT !.email = email, !.password = password]
      fail(status, message) ==
        [db |-> found.db, held |-> held,
         resp |-> request(Response("login", status, message, 0, NoTokens,
                                   found.compared))]
  IN  IF found.threw THEN fail(500, "Cast to date failed")
      ELSE IF found.id = 0 THEN fail(401, "Invalid email or password")
      ELSE IF LoginGate(found.doc) = "inactive"
      THEN fail(403, "Account is inactive")
      ELSE IF LoginGate(found.doc) = "unverified"
      THEN fail(403, "Please verify your account first")
      ELSE LET id == found.id
               d1 == RecordLogin(found.db, id, deviceInfo, ipAddress)
               accessToken == GenerateAccessToken(id, found.doc)
               refreshToken == GenerateRefreshToken(id, found.doc)
               d2 == [d1 EXCEPT ![id].refreshToken = refreshToken]
           IN  [db |-> d2, held |-> accessToken,
                resp |-> request(Response("login", 200, "Login successful", id,
                                          [kind |-> "pair",
                                           accessToken |-> accessToken,
                                           refreshToken |-> refreshToken],
                                          TRUE))]

\* Mutant of the unique indexes: there are none.
DuplicateKeyNever(d, id, data) == FALSE

\* The unique indexes on email and phone refuse to give document id (0: a
\* new document) the email or phone of data, because another document,
\* deleted or not, has it.
DuplicateKey(d, id, data) ==
  \E f \in {"email", "phone"} \cap DOMAIN data :
    \E i \in 1..Len(d) : i # id /\ d[i][f] = data[f]

\* findOne({ $or: [{ email }, { phone }], isDeleted: { $ne: true } })
FindExisting(d, authorData) ==
  First({i \in 1..Len(d) :
           /\ (d[i].email = authorData.email \/ d[i].phone = authorData.phone)
           /\ d[i].isDeleted # TRUE})

\* createAuthor: the service's duplicate check, then Author.create under the
\* unique indexes on email and phone.  The request carries both images, so
\* the uploads and the URL validators of avatar and coverImage pass.
CreateAuthor(authorData) ==
  LET existing == FindExisting(db, authorData)
      duplicateKey == DuplicateKey(db, 0, authorData)
  IN  IF existing # 0
      THEN [db |-> db,
            resp |-> Response("create", 409,
                              "Author with this email or phone already exists",
                              0, NoTokens, FALSE)]
      ELSE IF duplicateKey
      THEN [db |-> db,
            resp |-> Response("create", 500, "E11000 duplicate key error",
                              0, NoTokens, FALSE)]
      ELSE [db |-> Append(db, NewAuthor(authorData)),
            resp |-> Response("create", 201, "Author created successfully",
                              Len(db) + 1, NoTokens, FALSE)]

\* The stored form of a value of updateData: findByIdAndUpdate runs no
\* pre("save") hook, so a password is stored as given.
Stored(f, v) == IF f = "password" THEN Plain(v) ELSE v

\* updateAuthorById(id, updateData): $set of the given paths.
UpdateAuthorById(id, updateData) ==
  IF FindNotDeleted(db, id) = 0
  THEN [db |-> db,
        resp |-> Response("update", 404, "Author not found", 0, NoTokens, FALSE)]
  ELSE IF DuplicateKey(db, id, updateData)
  THEN [db |-> db,
        resp |-> Response("update", 500, "E11000 duplicate key error", 0,
                          NoTokens, FALSE)]
  ELSE [db |-> [db EXCEPT ![id] =
                  [f \in DOMAIN @ |->
                     IF f \in DOMAIN updateData THEN Stored(f, updateData[f])
                     ELSE @[f]]],
        resp |-> Response("update", 200, "Author updated successfully", id,
                          NoTokens, FALSE)]

\* getAuthorById(id)
GetAuthorById(id) ==
  IF FindNotDeleted(db, id) = 0
  THEN Response("get", 404, "Author not found", 0, NoTokens, FALSE)
  ELSE Response("get", 200, "Author fetched successfully", id, NoTokens, FALSE)

\* getAllAuthors(filters), first page: the authors not deleted, with the
\* isActive filter when one is given.  The order of the page is left out.
GetAllAuthors(filters) ==
  [Response("list", 200, "Author fetched successfully", 0, NoTokens, FALSE)
     EXCEPT !.found =
       {i \in 1..Len(db) :
          /\ db[i].isDeleted # TRUE
          /\ filters.isActive # Undefined
               => db[i].isActive = filters.isActive.b}]

\* deleteAuthorById(id): the soft delete.
DeleteAuthorById(id) ==
  IF FindNotDeleted(db, id) = 0
  THEN [db |-> db,
        resp |-> Response("delete", 404, "Author not found", 0, NoTokens, FALSE)]
  ELSE [db |-> [db EXCEPT ![id].isDeleted = TRUE],
        resp |-> Response("delete", 200, "Author deleted successfully", id,
                          NoTokens, FALSE)]

\* logoutAuthor(authorId), with the controller's answer.  findByIdAndUpdate
\* unsets refreshToken and stamps lastActive; the catch block turns every
\* error, the 404 of its own try block included, into the 500.
LogoutAuthor(authorId) ==
  IF FindById(db, authorId) = 0
  THEN [db |-> db,
        resp |-> Response("logout", 500, "Logout failed", 0, NoTokens, FALSE)]
  ELSE [db |-> [db EXCEPT ![authorId].refreshToken = Undefined,
                          ![authorId].lastActive = DateVal(now)],
        resp |-> Response("logout", 200, "Logout successful", authorId,
                          NoTokens, FALSE)]

\* An Admin document: the account shape of the data model, as far as login
\* and logout use it.
NewAdmin(data) ==
  [email |-> data.email,
   password |-> Hash(data.password),
   refreshToken |-> Undefined,
   lastActive |-> Undefined]

\* generateAdminAccessAndRefreshTokens(adminId): both tokens are issued and
\* the refresh token is stored.
GenerateAdminAccessAndRefreshTokens(d, adminId) ==
  LET accessToken == [kind |-> "access", _id |-> adminId, role |-> "admin",
                      iat |-> now, exp |-> now + AccessTTL]
      refreshToken == [kind |-> "refresh", _id |-> adminId, role |-> "admin",
                       iat |-> now, exp |-> now + RefreshTTL]
  IN  [admins |-> [d EXCEPT ![adminId].refreshToken = refreshToken],
       tokens |-> [kind |-> "pair", accessToken |-> accessToken,
                   refreshToken |-> refreshToken]]

\* adminLogin(email, password)
AdminLogin(email, password) ==
  LET id == First({i \in 1..Len(admins) : admins[i].email = email})
      fail == [admins |-> admins,
               resp |-> Response("adminLogin", 401, "Invalid email or password",
                                 0, NoTokens, id # 0)]
  IN  IF id = 0 THEN fail
      ELSE IF admins[id].password # Hash(password) THEN fail
      ELSE LET issued == GenerateAdminAccessAndRefreshTokens(admins, id)
           IN  [admins |-> issued.admins,
                resp |-> Response("adminLogin", 200, "Login successful", id,
                                  issued.tokens, TRUE)]

\* adminLogout(adminId): refreshToken = null, then save.  lastActive is not
\* touched.
AdminLogout(adminId) ==
  IF First({i \in 1..Len(admins) : i = adminId}) = 0
  THEN [admins |-> admins,
        resp |-> Response("adminLogout", 404, "Admin not found", 0, NoTokens,
                          FALSE)]
  ELSE [admins |-> [admins EXCEPT ![adminId].refreshToken = JsNull],
        resp |-> Response("adminLogout", 200, "Logged out successfully",
                          adminId, NoTokens, FALSE)]

\* jwt.verify(token, ACCESS_TOKEN_SECRET)
JwtVerify(token) ==
  IF token.kind # "access" THEN "JsonWebTokenError"
  ELSE IF now >= token.exp THEN "TokenExpiredError"
  ELSE "ok"

\* Mutant of verifyJWT: the isDeleted check left out.
VerifyJWTNoDeletedCheck(token) ==
  LET reject(status, message) ==
        Response("verifyJWT", status, message, 0, token, FALSE)
  IN  IF token.kind = "none"
      THEN reject(401, "Unauthorized - No token provided")
      ELSE IF JwtVerify(token) = "TokenExpiredError"
      THEN reject(401, "Unauthorized - Token expired")
      ELSE IF JwtVerify(token) = "JsonWebTokenError"
      THEN reject(401, "Unauthorized - Invalid token")
      ELSE LET id == FindById(db, token._id)
           IN  IF id = 0 THEN reject(401, "Unauthorized - Author not found")
               ELSE Response("verifyJWT", 200, "next", id, token, FALSE)

\* verifyJWT: status 200 stands for req.author set and next() called.
VerifyJWT(token) ==
  LET reject(status, message) ==
        Response("verifyJWT", status, message, 0, token, FALSE)
  IN  IF token.kind = "none"
      THEN reject(401, "Unauthorized - No token provided")
      ELSE IF JwtVerify(token) = "TokenExpiredError"
      THEN reject(401, "Unauthorized - Token expired")
      ELSE IF JwtVerify(token) = "JsonWebTokenError"
      THEN reject(401, "Unauthorized - Invalid token")
      ELSE LET id == FindById(db, token._id)
           IN  IF id = 0 THEN reject(401, "Unauthorized - Author not found")
               ELSE LET author == Project(db[id], SelectFalse)
                    IN  IF author.isDeleted
                        THEN reject(401, "Unauthorized - Account has been deleted")
                        ELSE IF ChangedPasswordAfter(author, token.iat)
                        THEN reject(401, "Unauthorized - Password changed recently. Please login again")
                        ELSE Response("verifyJWT", 200, "next", id, token, FALSE)

-----------------------------------------------------------------------------
(* Users (userSchema, services/admin/user.service.js).  The service is the *)
(* author service with the names changed; userSchema declares no isDeleted *)
(* path.                                                                   *)

\* User.create(data): the paths of userSchema the model follows.
NewUser(data) ==
  [email |-> data.email,
   phone |-> data.phone,
   password |-> Hash(data.password),
   isVerified |-> data.isVerified,
   isActive |-> data.isActive]

\* The filter isDeleted: { $ne: true } on a document: one that has no such
\* field matches.
NotDeleted(doc) == "isDeleted" \notin DOMAIN doc \/ doc.isDeleted # TRUE

\* $set of update on a document under the schema's strict mode: a path the
\* schema does not declare is dropped from the update.
StrictSet(doc, update) ==
  [f \in DOMAIN doc |-> IF f \in DOMAIN update THEN update[f] ELSE doc[f]]

\* findOne({ _id: id, isDeleted: { $ne: true } }) on the users
FindUser(id) == First({u \in 1..Len(users) : u = id /\ NotDeleted(users[u])})

\* createUser(userData)
CreateUser(userData) ==
  LET existing == First({u \in 1..Len(users) :
                           /\ (users[u].email = userData.email
                               \/ users[u].phone = userData.phone)
                           /\ NotDeleted(users[u])})
  IN  IF existing # 0
      THEN [users |-> users,
            resp |-> Response("createUser", 409,
                              "User with this email or phone already exists",
                              0, NoTokens, FALSE)]
      ELSE [users |-> Append(users, NewUser(userData)),
            resp |-> Response("createUser", 201, "User created successfully",
                              Len(users) + 1, NoTokens, FALSE)]

\* getUserById(id)
GetUserById(id) ==
  IF FindUser(id) = 0
  THEN Response("getUser", 404, "User not found", 0, NoTokens, FALSE)
  ELSE Response("getUser", 200, "User fetched successfully", id, NoTokens, FALSE)

\* getAllUsers(filters), first page.
GetAllUsers(filters) ==
  [Response("listUsers", 200, "Users fetched successfully", 0, NoTokens, FALSE)
     EXCEPT !.found =
       {u \in 1..Len(users) :
          /\ NotDeleted(users[u])
          /\ filters.isActive # Undefined
               => users[u].isActive = filters.isActive.b}]

\* updateUserById(id, updateData)
UpdateUserById(id, updateData) ==
  IF FindUser(id) = 0
  THEN [users |-> users,
        resp |-> Response("updateUser", 404, "User not found", 0, NoTokens,
                          FALSE)]
  ELSE IF DuplicateKey(users, id, updateData)
  THEN [users |-> users,
        resp |-> Response("updateUser", 500, "E11000 duplicate key error", 0,
                          NoTokens, FALSE)]
  ELSE [users |-> [users EXCEPT ![id] = StrictSet(@, updateData)],
        resp |-> Response("updateUser", 200, "User updated successfully", id,
                          NoTokens, FALSE)]

\* deleteUserById(id): findByIdAndUpdate(id, { isDeleted: true }).
DeleteUserById(id) ==
  IF FindUser(id) = 0
  THEN [users |-> users,
        resp |-> Response("deleteUser", 404, "User not found", 0, NoTokens,
                          FALSE)]
  ELSE [users |-> [users EXCEPT ![id] = StrictSet(@, [isDeleted |-> TRUE])],
        resp |-> Response("deleteUser", 200, "User deleted successfully", id,
                          NoTokens, FALSE)]

-----------------------------------------------------------------------------
(* Categories (models/category.model.js, services/admin/category.service.js *)
(* and its controller).  A title is a sequence of characters, so that the   *)
(* slug is computed from it as the pre("save") hook computes it.            *)

LowerCase == {"a", "b"}
UpperCase == {"A", "B"}

\* c.toLowerCase() and c.toUpperCase() of one character.
ToLowerCase(c) == CASE c = "A" -> "a" [] c = "B" -> "b" [] OTHER -> c
ToUpperCase(c) == CASE c = "a" -> "A" [] c = "b" -> "B" [] OTHER -> c

\* The titles tried: "a b" and "b!!a".
Titles == {<<"a", " ", "b">>, <<"b", "!", "!", "a">>}

\* A string of characters as a value of a request body.
Text(c) == [t |-> "text", c |-> c]

\* s.replace(/[^a-z0-9]+/g, "-"): every run of other characters becomes one
\* "-".
RECURSIVE ReplaceRuns(_)
ReplaceRuns(s) ==
  IF s = <<>> THEN <<>>
  ELSE LET rest == ReplaceRuns(Tail(s))
       IN  IF Head(s) \in LowerCase THEN <<Head(s)>> \o rest
           ELSE IF rest # <<>> /\ Head(rest) = "-" THEN rest
           ELSE <<"-">> \o rest

\* s.replace(/(^-|-$)/g, "")
StripDashes(s) ==
  LET t == IF s # <<>> /\ Head(s) = "-" THEN Tail(s) ELSE s
  IN  IF t # <<>> /\ t[Len(t)] = "-" THEN SubSeq(t, 1, Len(t) - 1) ELSE t

\* The slug of pre("save"): lower case, runs replaced, dashes stripped.
Slugify(title) ==
  StripDashes(ReplaceRuns([k \in 1..Len(title) |-> ToLowerCase(title[k])]))

\* title.charAt(0).toUpperCase() + title.slice(1)
Capitalize(title) ==
  IF title = <<>> THEN title
  ELSE <<ToUpperCase(Head(title))>> \o Tail(title)

\* Category.create(data): schema defaults, then pre("save") capitalizes the
\* title and derives the slug.  The request carries its image.
NewCategory(data) ==
  [title |-> Capitalize(data.title),
   slug |-> Slugify(Capitalize(data.title)),
   order |-> data.order,
   isActive |-> IF data.isActive = Undefined THEN TRUE ELSE data.isActive.b,
   isDeleted |-> FALSE]

\* An answer about a category.
CategoryResponse(op, status, message, id) ==
  Response(op, status, message, id, NoTokens, FALSE)

\* title matches new RegExp(`^${other}$`, 'i')
SameTitle(title, other) ==
  /\ Len(title) = Len(other)
  /\ \A k \in 1..Len(title) : ToLowerCase(title[k]) = ToLowerCase(other[k])

\* findOne({ _id: id, isDeleted: { $ne: true } }) on the categories
FindCategory(id) ==
  First({c \in 1..Len(cats) : c = id /\ cats[c].isDeleted # TRUE})

\* createCategory(categoryData, imageLocalPath): the duplicate check among
\* the categories not deleted, then Category.create under the unique indexes
\* on title and slug.
CreateCategory(categoryData) ==
  LET existing == First({c \in 1..Len(cats) :
                           /\ SameTitle(cats[c].title, categoryData.title)
                           /\ cats[c].isDeleted # TRUE})
      category == NewCategory(categoryData)
      duplicateKey == \E c \in 1..Len(cats) :
                         cats[c].title = category.title
                         \/ cats[c].slug = category.slug
  IN  IF existing # 0
      THEN [cats |-> cats,
            resp |-> CategoryResponse("createCategory", 409,
                       "Category with this title already exists", 0)]
      ELSE IF duplicateKey
      THEN [cats |-> cats,
            resp |-> CategoryResponse("createCategory", 500,
                                      "E11000 duplicate key error", 0)]
      ELSE [cats |-> Append(cats, category),
            resp |-> CategoryResponse("createCategory", 201,
                       "Category created successfully", Len(cats) + 1)]

\* getCategoryById(id)
GetCategoryById(id) ==
  IF FindCategory(id) = 0
  THEN CategoryResponse("getCategory", 404, "Category not found", 0)
  ELSE CategoryResponse("getCategory", 200, "Category fetched successfully", id)

\* getAllCategories(filters), first page: the categories not deleted, with
\* the isActive filter when one is given.  The order of the page is left out.
GetAllCategories(filters) ==
  [CategoryResponse("listCategories", 200, "Categories fetched successfully", 0)
     EXCEPT !.found =
       {c \in 1..Len(cats) :
          /\ cats[c].isDeleted # TRUE
          /\ filters.isActive # Undefined
               => cats[c].isActive = filters.isActive.b}]

\* getCategoriesWithNewsCount(): the aggregate's $match.
GetCategoriesWithNewsCount ==
  [CategoryResponse("listCategoriesWithNewsCount", 200,
                    "Categories with news count fetched successfully", 0)
     EXCEPT !.found = {c \in 1..Len(cats) : cats[c].isDeleted # TRUE}]

\* The update object updateCategoryById prepares: a path is taken when its
\* value is truthy (title, isActive) or defined (order).
UpdateFields(updateData) ==
  {f \in {"title", "order", "isActive"} :
     CASE f = "title" -> updateData.title.t = "text" /\ updateData.title.c # <<>>
       [] f = "order" -> updateData.order # Undefined
       [] f = "isActive" -> Truthy(updateData.isActive)}

\* updateCategoryById(id, updateData), without a new image: the duplicate
\* check, then findByIdAndUpdate with $set of the prepared paths.  No
\* pre("save") hook runs; the unique index on title is in force.
UpdateCategoryById(id, updateData) ==
  LET fields == UpdateFields(updateData)
      title == updateData.title.c
      checked == "title" \in fields /\ title # cats[id].title
      existing == First({c \in 1..Len(cats) :
                           /\ SameTitle(cats[c].title, title)
                           /\ c # id
                           /\ cats[c].isDeleted # TRUE})
      duplicateKey == /\ "title" \in fields
                      /\ \E c \in 1..Len(cats) : c # id /\ cats[c].title = title
      value(f) == IF f = "isActive" THEN updateData[f].b
                  ELSE IF f = "order" THEN updateData[f].n
                  ELSE updateData[f].c
  IN  IF FindCategory(id) = 0
      THEN [cats |-> cats,
            resp |-> CategoryResponse("updateCategory", 404,
                                      "Category not found", 0)]
      ELSE IF checked /\ existing # 0
      THEN [cats |-> cats,
            resp |-> CategoryResponse("updateCategory", 409,
                       "Category with this title already exists", 0)]
      ELSE IF duplicateKey
      THEN [cats |-> cats,
            resp |-> CategoryResponse("updateCategory", 500,
                                      "E11000 duplicate key error", 0)]
      ELSE [cats |-> [cats EXCEPT ![id] =
                        [f \in DOMAIN @ |->
                           IF f \in fields THEN value(f) ELSE @[f]]],
            resp |-> CategoryResponse("updateCategory", 200,
                                      "Category updated successfully", id)]

\* The body of PATCH /:id after validate(updateCategoryById): isActive has
\* the default true.
ValidatedUpdate(body) ==
  [body EXCEPT !.isActive = IF @ = Undefined THEN Bool(TRUE) ELSE @]

\* Mutant of deleteCategoryById: the document is removed from the
\* collection.
DeleteCategoryByIdRemoves(id) ==
  IF FindCategory(id) = 0
  THEN [cats |-> cats,
        resp |-> CategoryResponse("deleteCategory", 404,
                                  "Category not found", 0)]
  ELSE [cats |-> SubSeq(cats, 1, id - 1) \o SubSeq(cats, id + 1, Len(cats)),
        resp |-> CategoryResponse("deleteCategory", 200,
                                  "Category deleted successfully", id)]

\* deleteCategoryById(id): the soft delete.
DeleteCategoryById(id) ==
  IF FindCategory(id) = 0
  THEN [cats |-> cats,
        resp |-> CategoryResponse("deleteCategory", 404,
                                  "Category not found", 0)]
  ELSE [cats |-> [cats EXCEPT ![id].isDeleted = TRUE],
        resp |-> CategoryResponse("deleteCategory", 200,
                                  "Category deleted successfully", id)]

-----------------------------------------------------------------------------
(* The state machine: one action per request, and the passing of time.     *)

\* The request bodies tried.  Accounts are created as "e1" with password
\* "p1", so "e2" is an email no account has and "p2" a wrong password, and
\* an update changes the password to "p2".
AuthorData ==
  [email : {"e1"}, phone : Phones, password : {"p1"},
   isVerified : BOOLEAN, isActive : BOOLEAN]

UpdateData ==
  {[isActive |-> b] : b \in BOOLEAN} \cup {[isVerified |-> b] : b \in BOOLEAN}
    \cup {[password |-> "p2"]}

BadToken == [kind |-> "malformed"]

Init ==
  /\ env \in EnvConfigs
  /\ now = StartTime
  /\ db = <<>>
  /\ held = NoTokens
  /\ resp = NoResponse
  /\ stale = FALSE
  /\ reqs = <<>>
  /\ admins = <<>>
  /\ users = <<>>
  /\ cats = <<>>

Create ==
  \E authorData \in AuthorData :
    LET r == CreateAuthor(authorData)
    IN  /\ Len(r.db) <= MaxAccounts
        /\ db' = r.db
        /\ resp' = r.resp
        /\ UNCHANGED <<env, now, held, stale, reqs, admins, users, cats>>

Login ==
  \E email \in Emails, password \in Passwords :
    LET r == LoginAuthor(email, password, "device", "ip")
    IN  /\ \A i \in 1..Len(r.db) :
              /\ r.db[i].loginAttempts <= MaxAttempts
              /\ Len(r.db[i].loginHistory) <= MaxHistory
        /\ db' = r.db
        /\ held' = r.held
        /\ resp' = r.resp
        /\ stale' = (stale /\ r.resp.status # 200)
        /\ UNCHANGED <<env, now, reqs, admins, users, cats>>

Update ==
  \E id \in 1..MaxAccounts, updateData \in UpdateData :
    LET r == UpdateAuthorById(id, updateData)
    IN  /\ db' = r.db
        /\ resp' = r.resp
        /\ stale' = (\/ stale
                      \/ /\ r.resp.status = 200
                         /\ r.db[id].password # db[id].password
                         /\ held.kind = "access"
                         /\ held._id = id
                         /\ held.iat < now)
        /\ UNCHANGED <<env, now, held, reqs, admins, users, cats>>

Delete ==
  \E id \in 1..MaxAccounts :
    LET r == DeleteAuthorById(id)
    IN  /\ db' = r.db
        /\ resp' = r.resp
        /\ UNCHANGED <<env, now, held, stale, reqs, admins, users, cats>>

\* POST /logout: verifyJWT with the access token the client holds, then the
\* controller logs out req.author._id.
Logout ==
  LET verified == VerifyJWT(held)
      r == LogoutAuthor(verified.id)
  IN  /\ db' = IF verified.status = 200 THEN r.db ELSE db
      /\ resp' = IF verified.status = 200 THEN r.resp ELSE verified
      /\ UNCHANGED <<env, now, held, stale, reqs, admins, users, cats>>

\* The refresh tokens the accounts have stored: the client got them in the
\* login response and in the cookie.
RefreshTokens ==
  {db[i].refreshToken :
     i \in {j \in 1..Len(db) : db[j].refreshToken # Undefined}}

\* Mutant of the pass through verifyJWT: an accepted request stamps
\* lastActive.
AuthorizeStampsLastActive ==
  \E token \in {held, NoTokens, BadToken} \cup RefreshTokens :
    LET verified == VerifyJWT(token)
    IN  /\ resp' = verified
        /\ db' = IF verified.status = 200
                 THEN [db EXCEPT ![verified.id].lastActive = DateVal(now)]
                 ELSE db
        /\ UNCHANGED <<env, now, held, stale, reqs, admins, users, cats>>

\* A request passes through verifyJWT: with the access token the client
\* holds, without a token, with a malformed one, or with a refresh token in
\* the place of the access token.
Authorize ==
  \E token \in {held, NoTokens, BadToken} \cup RefreshTokens :
    /\ resp' = VerifyJWT(token)
    /\ UNCHANGED <<env, now, db, held, stale, reqs, admins, users, cats>>

\* The ends of the locks that are in force.
LockEnds ==
  {db[i].lockUntil.n :
     i \in {j \in 1..Len(db) :
              db[j].lockUntil.t = "date" /\ db[j].lockUntil.n > now}}

\* Time passes: tick by tick after the start, or to the end of a lock.
Tick ==
  /\ \E t \in {now + 1} \cup LockEnds :
       /\ t = now + 1 => now < StartTime + MaxClock
       /\ now' = t
  /\ resp' = NoResponse
  /\ UNCHANGED <<env, db, held, stale, reqs, admins, users, cats>>

Next == Create \/ Login \/ Update \/ Delete \/ Logout \/ Authorize \/ Tick

Spec == Init /\ [][Next]_vars

-----------------------------------------------------------------------------
(* The accounts of both kinds: the authors as above, next to an admin who  *)
(* logs in and out.                                                        *)

\* The admin that exists, and the credentials tried for it.
AdminData == [email |-> "a1", password |-> "p1"]

InitAccounts ==
  /\ env = [MAX_LOGIN_ATTEMPTS |-> Undefined, LOCK_TIME |-> Undefined]
  /\ now = StartTime
  /\ db = <<>>
  /\ held = NoTokens
  /\ resp = NoResponse
  /\ stale = FALSE
  /\ reqs = <<>>
  /\ admins = <<NewAdmin(AdminData)>>
  /\ users = <<>>
  /\ cats = <<>>

LoginAdmin ==
  \E password \in Passwords :
    LET r == AdminLogin(AdminData.email, password)
    IN  /\ admins' = r.admins
        /\ resp' = r.resp
        /\ UNCHANGED <<env, now, db, held, stale, reqs, users, cats>>

LogoutAdmin ==
  \E adminId \in 1..Len(admins) :
    LET r == AdminLogout(adminId)
    IN  /\ admins' = r.admins
        /\ resp' = r.resp
        /\ UNCHANGED <<env, now, db, held, stale, reqs, users, cats>>

NextAccounts == Next \/ LoginAdmin \/ LogoutAdmin

SpecAccounts == InitAccounts /\ [][NextAccounts]_vars

-----------------------------------------------------------------------------
(* Overlapping logins.  The server handles requests concurrently (in one   *)
(* worker they interleave at every await, and the cluster runs a worker    *)
(* per CPU), so a loginAuthor call is a sequence of steps, one per store   *)
(* operation, each working on the document the call loaded at its start.   *)

\* A request that has not arrived yet.  readBeforeReset is history, kept
\* while a request with a wrong password is in progress: it had loaded the
\* account when another request reset the account's counters.
Idle ==
  [pc |-> "idle", email |-> "", password |-> "", id |-> 0,
   author |-> Undefined, tokens |-> NoTokens, status |-> 0, message |-> "",
   readBeforeReset |-> FALSE]

\* The request ends with this answer, and the document it loaded is
\* released.
Done(q, status, message) ==
  [q EXCEPT !.pc = "done", !.status = status, !.message = message,
            !.author = Undefined, !.readBeforeReset = FALSE]

InitLogins ==
  /\ env \in EnvConfigs
  /\ now = StartTime
  /\ db = <<NewAuthor([email |-> "e1", phone |-> "ph1", password |-> "p1",
                       isVerified |-> TRUE, isActive |-> TRUE])>>
  /\ held = NoTokens
  /\ resp = NoResponse
  /\ stale = FALSE
  /\ reqs = [r \in 1..MaxRequests |-> Idle]
  /\ admins = <<>>
  /\ users = <<>>
  /\ cats = <<>>

\* Of the document findOne returns, the paths the call reads later.
Loaded(doc) ==
  [f \in {"email", "password", "loginAttempts", "lockUntil", "isActive",
          "isVerified"} |-> doc[f]]

\* findByCredentials: the findOne with its select.  The requests are for
\* the email of the account.
FindAuthor ==
  \E r \in DOMAIN reqs, email \in {db[1].email}, password \in Passwords :
    LET q == [reqs[r] EXCEPT !.email = email, !.password = password]
        id == FindForLogin(db, email)
    IN  /\ reqs[r].pc = "idle"
        /\ reqs' = [reqs EXCEPT ![r] =
                      IF id = 0 THEN Done(q, 401, "Invalid email or password")
                      ELSE [q EXCEPT !.pc = "found", !.id = id,
                                     !.author = Loaded(db[id])]]
        /\ UNCHANGED <<env, now, db, held, resp, stale, admins, users, cats>>

\* findByCredentials: isAccountLocked and comparePassword on the loaded
\* document.
JudgePassword ==
  \E r \in DOMAIN reqs :
    LET q == reqs[r]
    IN  /\ q.pc = "found"
        /\ reqs' = [reqs EXCEPT ![r] =
                      IF IsAccountLocked(q.author)
                      THEN Done(q, 401, "Invalid email or password")
                      ELSE IF ~ComparePassword(q.author, q.password)
                      THEN [q EXCEPT !.pc = "mismatch"]
                      ELSE [q EXCEPT !.pc = "match"]]
        /\ UNCHANGED <<env, now, db, held, resp, stale, admins, users, cats>>

\* findByCredentials: incrementLoginAttempts and its updateOne.
CountFailure ==
  \E r \in DOMAIN reqs :
    LET q == reqs[r]
        upd == UpdateOne(db, q.id, IncrementUpdates(q.author))
    IN  /\ q.pc = "mismatch"
        /\ db' = upd.db
        /\ reqs' = [reqs EXCEPT ![r] =
                      IF upd.ok THEN Done(q, 401, "Invalid email or password")
                      ELSE Done(q, 500, "Cast to date failed")]
        /\ UNCHANGED <<env, now, held, resp, stale, admins, users, cats>>

\* findByCredentials: resetLoginAttempts; then the gates of loginAuthor on
\* the loaded document.
ResetCounters ==
  \E r \in DOMAIN reqs :
    LET q == reqs[r]
    IN  /\ q.pc = "match"
        /\ db' = ResetLoginAttempts(db, q.id)
        /\ reqs' = [x \in DOMAIN reqs |->
                      IF x = r
                      THEN IF LoginGate(q.author) = "inactive"
                           THEN Done(q, 403, "Account is inactive")
                           ELSE IF LoginGate(q.author) = "unverified"
                           THEN Done(q, 403, "Please verify your account first")
                           ELSE [q EXCEPT !.pc = "reset"]
                      ELSE IF /\ reqs[x].pc \in {"found", "mismatch"}
                              /\ reqs[x].id = q.id
                              /\ ~ComparePassword(reqs[x].author,
                                                  reqs[x].password)
                      THEN [reqs[x] EXCEPT !.readBeforeReset = TRUE]
                      ELSE reqs[x]]
        /\ UNCHANGED <<env, now, held, resp, stale, admins, users, cats>>

\* loginAuthor: recordLogin and its save.
RecordStep ==
  \E r \in DOMAIN reqs :
    LET q == reqs[r]
    IN  /\ q.pc = "reset"
        /\ db' = RecordLogin(db, q.id, "device", "ip")
        /\ reqs' = [reqs EXCEPT ![r] = [q EXCEPT !.pc = "recorded"]]
        /\ UNCHANGED <<env, now, held, resp, stale, admins, users, cats>>

\* loginAuthor: the two tokens are signed.
SignTokens ==
  \E r \in DOMAIN reqs :
    LET q == reqs[r]
    IN  /\ q.pc = "recorded"
        /\ reqs' = [reqs EXCEPT ![r] =
                      [q EXCEPT !.pc = "signed",
                                !.tokens =
                                  [kind |-> "pair",
                                   accessToken |->
                                     GenerateAccessToken(q.id, q.author),
                                   refreshToken |->
                                     GenerateRefreshToken(q.id, q.author)]]]
        /\ UNCHANGED <<env, now, db, held, resp, stale, admins, users, cats>>

\* loginAuthor: the refresh token is saved and the tokens are returned.
SaveToken ==
  \E r \in DOMAIN reqs :
    LET q == reqs[r]
    IN  /\ q.pc = "signed"
        /\ db' = SaveRefreshToken(db, q.id, q.tokens.refreshToken)
        /\ reqs' = [reqs EXCEPT ![r] = Done(q, 200, "Login successful")]
        /\ held' = q.tokens.accessToken
        /\ UNCHANGED <<env, now, resp, stale, admins, users, cats>>

\* The other requests that arrive while logins are in progress; their
\* answers are not looked at.
UpdateMeanwhile ==
  \E id \in 1..Len(db), updateData \in {[isVerified |-> FALSE]} :
    /\ db' = UpdateAuthorById(id, updateData).db
    /\ UNCHANGED <<env, now, held, resp, stale, reqs, admins, users, cats>>

DeleteMeanwhile ==
  \E id \in 1..Len(db) :
    /\ db' = DeleteAuthorById(id).db
    /\ UNCHANGED <<env, now, held, resp, stale, reqs, admins, users, cats>>

LogoutMeanwhile ==
  LET verified == VerifyJWT(held)
  IN  /\ verified.status = 200
      /\ db' = LogoutAuthor(verified.id).db
      /\ UNCHANGED <<env, now, held, resp, stale, reqs, admins, users, cats>>

NextLogins ==
  \/ FindAuthor \/ JudgePassword \/ CountFailure \/ ResetCounters
  \/ RecordStep \/ SignTokens \/ SaveToken
  \/ UpdateMeanwhile \/ DeleteMeanwhile \/ LogoutMeanwhile \/ Tick

SpecLogins == InitLogins /\ [][NextLogins]_vars

\* The account after k failed logins, one after the other.
RECURSIVE AfterFailures(_, _)
AfterFailures(d, k) ==
  IF k = 0 THEN d
  ELSE FindByCredentials(AfterFailures(d, k - 1), "e1", "p2").db

\* Overlapping logins on an account with failed attempts behind it, as many
\* that the overlapping ones can bring the counter to the threshold.
InitLockout ==
  /\ env \in EnvConfigs
  /\ now = StartTime
  /\ LET n == ToNumber(env.MAX_LOGIN_ATTEMPTS)
         threshold == IF n.t = "number" /\ n.n # 0 THEN n.n ELSE FIVE
     IN  db = AfterFailures(
                <<NewAuthor([email |-> "e1", phone |-> "ph1", password |-> "p1",
                             isVerified |-> TRUE, isActive |-> TRUE])>>,
                threshold - MaxRequests)
  /\ held = NoTokens
  /\ resp = NoResponse
  /\ stale = FALSE
  /\ reqs = [r \in 1..MaxRequests |-> Idle]
  /\ admins = <<>>
  /\ users = <<>>
  /\ cats = <<>>

SpecLockout == InitLockout /\ [][NextLogins]_vars

-----------------------------------------------------------------------------
(* The records an administrator manages: authors and categories are        *)
(* created, read, updated and soft-deleted.                                *)

\* The bodies and queries tried.  A category is created at order 0 and
\* moved to order 1.
CategoryData == [title : Titles, order : {0}, isActive : {Bool(TRUE), Bool(FALSE)}]

\* The bodies of an update: nothing, or one of title, order and isActive.
NoUpdate == [title |-> Undefined, order |-> Undefined, isActive |-> Undefined]

CategoryUpdates ==
  {NoUpdate, [NoUpdate EXCEPT !.order = Num(1)]}
    \cup {[NoUpdate EXCEPT !.title = Text(c)] : c \in Titles}
    \cup {[NoUpdate EXCEPT !.isActive = Bool(b)] : b \in BOOLEAN}

Filters == [isActive : {Undefined, Bool(TRUE), Bool(FALSE)}]

InitContent ==
  /\ env = [MAX_LOGIN_ATTEMPTS |-> Undefined, LOCK_TIME |-> Undefined]
  /\ now = StartTime
  /\ db = <<>>
  /\ held = NoTokens
  /\ resp = NoResponse
  /\ stale = FALSE
  /\ reqs = <<>>
  /\ admins = <<>>
  /\ users = <<>>
  /\ cats = <<>>

Get ==
  \E id \in 1..MaxAccounts :
    /\ resp' = GetAuthorById(id)
    /\ UNCHANGED <<env, now, db, held, stale, reqs, admins, users, cats>>

List ==
  \E filters \in Filters :
    /\ resp' = GetAllAuthors(filters)
    /\ UNCHANGED <<env, now, db, held, stale, reqs, admins, users, cats>>

CategoryCreate ==
  \E categoryData \in CategoryData :
    LET r == CreateCategory(categoryData)
    IN  /\ Len(r.cats) <= MaxCategories
        /\ cats' = r.cats
        /\ resp' = r.resp
        /\ UNCHANGED <<env, now, db, held, stale, reqs, admins, users>>

CategoryGet ==
  \E id \in 1..MaxCategories :
    /\ resp' = GetCategoryById(id)
    /\ UNCHANGED <<env, now, db, held, stale, reqs, admins, users, cats>>

CategoryList ==
  \E filters \in Filters :
    /\ resp' = GetAllCategories(filters)
    /\ UNCHANGED <<env, now, db, held, stale, reqs, admins, users, cats>>

CategoryNewsCount ==
  /\ resp' = GetCategoriesWithNewsCount
  /\ UNCHANGED <<env, now, db, held, stale, reqs, admins, users, cats>>

\* PATCH /:id: validate, then the controller hands title, order and
\* isActive of the validated body to the service.
CategoryUpdate ==
  \E id \in 1..MaxCategories, body \in CategoryUpdates :
    LET r == UpdateCategoryById(id, ValidatedUpdate(body))
    IN  /\ cats' = r.cats
        /\ resp' = r.resp
        /\ UNCHANGED <<env, now, db, held, stale, reqs, admins, users>>

CategoryDelete ==
  \E id \in 1..MaxCategories :
    LET r == DeleteCategoryById(id)
    IN  /\ cats' = r.cats
        /\ resp' = r.resp
        /\ UNCHANGED <<env, now, db, held, stale, reqs, admins, users>>

NextContent ==
  \/ Create \/ Get \/ List \/ Update \/ Delete
  \/ CategoryCreate \/ CategoryGet \/ CategoryList \/ CategoryNewsCount
  \/ CategoryUpdate \/ CategoryDelete

SpecContent == InitContent /\ [][NextContent]_vars

-----------------------------------------------------------------------------
(* The users an administrator manages.                                     *)

UserData ==
  [email : Emails, phone : TwoPhones, password : {"p1"},
   isVerified : BOOLEAN, isActive : BOOLEAN]

UserUpdates ==
  {[isActive |-> b] : b \in BOOLEAN} \cup {[isVerified |-> b] : b \in BOOLEAN}

InitUsers ==
  /\ env = [MAX_LOGIN_ATTEMPTS |-> Undefined, LOCK_TIME |-> Undefined]
  /\ now = StartTime
  /\ db = <<>>
  /\ held = NoTokens
  /\ resp = NoResponse
  /\ stale = FALSE
  /\ reqs = <<>>
  /\ admins = <<>>
  /\ users = <<>>
  /\ cats = <<>>

UserCreate ==
  \E userData \in UserData :
    LET r == CreateUser(userData)
    IN  /\ Len(r.users) <= MaxUsers
        /\ users' = r.users
        /\ resp' = r.resp
        /\ UNCHANGED <<env, now, db, held, stale, reqs, admins, cats>>

UserGet ==
  \E id \in 1..MaxUsers :
    /\ resp' = GetUserById(id)
    /\ UNCHANGED <<env, now, db, held, stale, reqs, admins, users, cats>>

UserList ==
  \E filters \in Filters :
    /\ resp' = GetAllUsers(filters)
    /\ UNCHANGED <<env, now, db, held, stale, reqs, admins, users, cats>>

UserUpdate ==
  \E id \in 1..MaxUsers, updateData \in UserUpdates :
    LET r == UpdateUserById(id, updateData)
    IN  /\ users' = r.users
        /\ resp' = r.resp
        /\ UNCHANGED <<env, now, db, held, stale, reqs, admins, cats>>

UserDelete ==
  \E id \in 1..MaxUsers :
    LET r == DeleteUserById(id)
    IN  /\ users' = r.users
        /\ resp' = r.resp
        /\ UNCHANGED <<env, now, db, held, stale, reqs, admins, cats>>

NextUsers == UserCreate \/ UserGet \/ UserList \/ UserUpdate \/ UserDelete

SpecUsers == InitUsers /\ [][NextUsers]_vars

-----------------------------------------------------------------------------
(* Overlapping createAuthor calls.  A call is two store operations, the    *)
(* duplicate check and the insert; between them other calls run.           *)

IdentityData ==
  [email : Emails, phone : TwoPhones, password : {"p1"},
   isVerified : {TRUE}, isActive : {TRUE}]

IdentityUpdates ==
  {[email |-> e] : e \in Emails} \cup {[phone |-> p] : p \in TwoPhones}

\* A createAuthor call that has not arrived yet.
IdleCreate == [pc |-> "idle", email |-> "", phone |-> "", status |-> 0]

InitIdentity ==
  /\ env = [MAX_LOGIN_ATTEMPTS |-> Undefined, LOCK_TIME |-> Undefined]
  /\ now = StartTime
  /\ db = <<>>
  /\ held = NoTokens
  /\ resp = NoResponse
  /\ stale = FALSE
  /\ reqs = [r \in 1..MaxRequests |-> IdleCreate]
  /\ admins = <<>>
  /\ users = <<>>
  /\ cats = <<>>

\* createAuthor: the duplicate check.  A call that has been answered makes
\* room for the next one.
CreateCheck ==
  \E r \in DOMAIN reqs, authorData \in IdentityData :
    LET q == [IdleCreate EXCEPT !.email = authorData.email,
                                !.phone = authorData.phone]
    IN  /\ reqs[r].pc \in {"idle", "done"}
        /\ reqs' = [reqs EXCEPT ![r] =
                      IF FindExisting(db, authorData) # 0
                      THEN [q EXCEPT !.pc = "done", !.status = 409]
                      ELSE [q EXCEPT !.pc = "checked"]]
        /\ UNCHANGED <<env, now, db, held, resp, stale, admins, users, cats>>

\* createAuthor: Author.create, under the unique indexes.
CreateInsert ==
  \E r \in DOMAIN reqs :
    LET q == reqs[r]
        authorData == [email |-> q.email, phone |-> q.phone,
                       password |-> "p1", isVerified |-> TRUE,
                       isActive |-> TRUE]
    IN  /\ q.pc = "checked"
        /\ IF DuplicateKey(db, 0, authorData)
           THEN /\ db' = db
                /\ reqs' = [reqs EXCEPT ![r] =
                              [q EXCEPT !.pc = "done", !.status = 500]]
           ELSE /\ db' = Append(db, NewAuthor(authorData))
                /\ reqs' = [reqs EXCEPT ![r] =
                              [q EXCEPT !.pc = "done", !.status = 201]]
        /\ UNCHANGED <<env, now, held, resp, stale, admins, users, cats>>

\* updateAuthorById with a new email or phone; the answer is not looked at.
UpdateIdentity ==
  \E id \in 1..Len(db), updateData \in IdentityUpdates :
    /\ db' = UpdateAuthorById(id, updateData).db
    /\ UNCHANGED <<env, now, held, resp, stale, reqs, admins, users, cats>>

NextIdentity == CreateCheck \/ CreateInsert \/ UpdateIdentity \/ DeleteMeanwhile

SpecIdentity == InitIdentity /\ [][NextIdentity]_vars

-----------------------------------------------------------------------------
(* The vocabulary of the claims.                                           *)

\* The lockout threshold the configuration stands for: MAX_LOGIN_ATTEMPTS,
\* or 5 when it is absent or zero.
Threshold ==
  LET n == ToNumber(env.MAX_LOGIN_ATTEMPTS)
  IN  IF n.t = "number" /\ n.n # 0 THEN n.n ELSE FIVE

\* The account is Locked: lockUntil is a time in the future.
Locked(doc) == doc.lockUntil.t = "date" /\ doc.lockUntil.n > now

\* Account i is Locked after this step.
LockedAfter(i) == db'[i].lockUntil.t = "date" /\ db'[i].lockUntil.n > now'

\* A lock was set and is no longer in the future.
Expired(doc) == doc.lockUntil.t = "date" /\ doc.lockUntil.n <= now

\* This step handles a login request for the email of account i.
LoginFor(i) ==
  /\ resp'.op = "login"
  /\ resp'.email = db[i].email
  /\ Len(db') = Len(db)

\* ... and the request carries the account's password / another password.
RightPassword(i) == db[i].password = Hash(resp'.password)
WrongPassword(i) == db[i].password # Hash(resp'.password)

\* This step is a failed attempt that the account's counter records.
CountedFailure(i) ==
  /\ LoginFor(i)
  /\ db'[i].loginAttempts = db[i].loginAttempts + 1

IssuesTokens(i) ==
  /\ resp'.op = "login"
  /\ resp'.tokens.kind = "pair"
  /\ resp'.id = i

\* The first gate of the login a request with these credentials fails, in
\* the order account exists, not locked, password verifies, isActive,
\* isVerified; "none" when it passes them all.
FailingGate(email, password) ==
  LET S == {i \in 1..Len(db) : db[i].email = email}
  IN  IF S = {} THEN "NotFound"
      ELSE LET account == db[First(S)]
           IN  IF Locked(account) THEN "AccountLocked"
               ELSE IF account.password # Hash(password) THEN "InvalidCredentials"
               ELSE IF ~account.isActive THEN "AccountInactive"
               ELSE IF ~account.isVerified THEN "AccountUnverified"
               ELSE "none"

\* What a login with these credentials answers in this state: the status
\* and the message of the error loginAuthor throws (or of the success).
LoginResult(email, password) ==
  LET r == LoginAuthor(email, password, "device", "ip").resp
  IN  <<r.status, r.message>>

-----------------------------------------------------------------------------
\* C1: starting Unlocked with loginAttempts = 0, the T-th consecutive
\* wrong-password login (T the threshold) leaves the account Locked, and the
\* attempt that follows it at once is refused and issues no tokens, even with
\* the correct password.
C1_LockedAtThreshold ==
  [][\A i \in 1..Len(db) :
       /\ (CountedFailure(i) /\ db'[i].loginAttempts >= Threshold)
            => LockedAfter(i)
       /\ (/\ resp.op = "login" /\ resp.email = db[i].email
           /\ resp.status # 200 /\ resp.compared
           /\ db[i].loginAttempts >= Threshold)
            => ~IssuesTokens(i)]_vars

\* C2: a wrong-password login on an Unlocked account with loginAttempts + 1
\* below the threshold only increments loginAttempts: lockUntil is not
\* written and the account stays Unlocked.
C2_IncrementOnly ==
  [][\A i \in 1..Len(db) :
       (CountedFailure(i) /\ db'[i].loginAttempts < Threshold)
         => /\ db'[i].lockUntil = db[i].lockUntil
            /\ ~LockedAfter(i)]_vars

\* C3: a login never returns a token pair for a soft-deleted account and
\* never stores a refresh token for it.
C3_DeletedGetsNoTokens ==
  [][\A i \in 1..Len(db) :
       db[i].isDeleted
         => /\ ~IssuesTokens(i)
            /\ Len(db') = Len(db) => db'[i].refreshToken = db[i].refreshToken]_vars

\* C4: a login never returns a token pair for an account that is inactive or
\* unverified, stores no refresh token for it (the stored one stays, or is
\* cleared by a logout) and appends no login-history entry, whatever the
\* password.
C4_InactiveUnverifiedGetNoTokens ==
  [][\A i \in 1..Len(db) :
       (~db[i].isActive \/ ~db[i].isVerified)
         => /\ ~IssuesTokens(i)
            /\ held' = held
            /\ Len(db') = Len(db)
                 => /\ db'[i].refreshToken \in {db[i].refreshToken, Undefined}
                    /\ db'[i].loginHistory = db[i].loginHistory]_vars

\* C4 witness: the correct password was presented for an unverified account.
C4_Witness ==
  /\ resp.op = "login" /\ resp.status = 403 /\ resp.compared
  /\ \E i \in 1..Len(db) :
       /\ db[i].email = resp.email /\ db[i].password = Hash(resp.password)
       /\ ~db[i].isVerified

\* C5: verifyJWT refuses, with the password-changed error, an access token
\* that was issued before the password of its account was changed.
C5_OldTokenRefused ==
  (resp.op = "verifyJWT" /\ resp.tokens = held /\ stale)
    => /\ resp.status = 401
       /\ resp.message = "Unauthorized - Password changed recently. Please login again"

\* C6: whenever a failed attempt writes lockUntil, the value written is
\* strictly later than the clock reading at that moment.
C6_LockInFuture ==
  [][\A i \in 1..Len(db) :
       (/\ LoginFor(i)
        /\ db'[i].lockUntil # db[i].lockUntil
        /\ db'[i].lockUntil.t = "date")
         => db'[i].lockUntil.n > now]_vars

\* C7: with the lockout configuration absent or zero, a wrong password on an
\* Unlocked account with loginAttempts = 4 gives loginAttempts = 5,
\* lockUntil = now + 2h and the invalid-credentials error.
C7_DefaultLockout ==
  [][\A i \in 1..Len(db) :
       (/\ ToNumber(env.MAX_LOGIN_ATTEMPTS) \in {NaN, Num(0)}
        /\ ToNumber(env.LOCK_TIME) \in {NaN, Num(0)}
        /\ LoginFor(i) /\ WrongPassword(i)
        /\ db[i].isActive /\ ~Locked(db[i])
        /\ db[i].loginAttempts = 4)
         => /\ db'[i].loginAttempts = 5
            /\ db'[i].lockUntil = DateVal(now + TWO_HOURS)
            /\ resp'.status = 401
            /\ resp'.message = "Invalid email or password"]_vars

\* C8: while lockUntil is in the future every login attempt is refused
\* before the password is compared, and it changes nothing of the account.
C8_LockedRefusedUnchanged ==
  [][\A i \in 1..Len(db) :
       (Locked(db[i]) /\ LoginFor(i))
         => /\ ~resp'.compared
            /\ resp'.tokens.kind = "none"
            /\ db'[i] = db[i]
            /\ held' = held]_vars

\* C8 witness: a login for a Locked account was refused.
C8_Witness ==
  /\ resp.op = "login" /\ ~resp.compared
  /\ \E i \in 1..Len(db) : db[i].email = resp.email /\ Locked(db[i])

\* C9: once lockUntil is no longer in the future a login is judged on the
\* password again: the correct password of an active, verified account
\* returns tokens, a wrong password is compared and counted as a failed
\* attempt like any other.
C9_ExpiredLockJudgedOnPassword ==
  [][\A i \in 1..Len(db) :
       (Expired(db[i]) /\ db[i].isActive /\ LoginFor(i))
         => /\ resp'.compared
            /\ (RightPassword(i) /\ db[i].isVerified) => IssuesTokens(i)
            /\ WrongPassword(i)
                 => /\ resp'.tokens.kind = "none"
                    /\ \/ resp'.status = 401
                          /\ db'[i].loginAttempts = db[i].loginAttempts + 1
                       \/ resp'.status = 500 /\ db' = db]_vars

\* C9 witness: a lock was in force, the clock went to its end, and a login
\* then returned tokens.
C9_Witness ==
  /\ now > StartTime + MaxClock
  /\ resp.op = "login" /\ resp.tokens.kind = "pair"

\* C10: the passing of a lock does not change loginAttempts; after it, with
\* loginAttempts at or above the threshold, one more wrong-password attempt
\* locks the account again; only a login that returns tokens or passes the
\* password check brings loginAttempts back to 0.
C10_NoDecayRelock ==
  [][\A i \in 1..Len(db) :
       /\ now' # now => db'[i].loginAttempts = db[i].loginAttempts
       /\ (/\ Expired(db[i]) /\ db[i].isActive
           /\ db[i].loginAttempts >= Threshold
           /\ LoginFor(i) /\ WrongPassword(i))
            => LockedAfter(i)
       /\ (Len(db') = Len(db) /\ db'[i].loginAttempts < db[i].loginAttempts)
            => /\ LoginFor(i) /\ RightPassword(i)
               /\ db'[i].loginAttempts = 0]_vars

\* C11: after any login that returns a token pair the stored account has
\* loginAttempts = 0 and lockUntil = null, whatever they were before; the
\* later saves of the login flow (recordLogin, the refresh-token save) do not
\* write the counters the request had loaded back.
C11_SuccessResetsCounters ==
  [][\A i \in 1..Len(db) :
       IssuesTokens(i)
         => /\ db'[i].loginAttempts = 0
            /\ db'[i].lockUntil = JsNull]_vars

\* C11 witness: the only account was locked by failed attempts, the clock
\* went to the end of the lock, and the login that followed returned tokens
\* and left the counters cleared.
C11_Witness ==
  /\ Len(db) = 1
  /\ now > StartTime + MaxClock
  /\ resp.op = "login" /\ resp.tokens.kind = "pair" /\ resp.id = 1
  /\ db[1].loginAttempts = 0 /\ db[1].lockUntil = JsNull

\* C12: the gates are evaluated in the order account exists, not locked,
\* password verifies, isActive, isVerified, and the first failing gate
\* decides: an inactive, unlocked account gets the invalid-credentials error
\* (with loginAttempts incremented) for a wrong password and the
\* account-inactive error for the correct one; an active, unverified account
\* with the correct password gets the account-unverified error.
C12_GateOrder ==
  [][\A i \in 1..Len(db) :
       (LoginFor(i) /\ ~Locked(db[i]))
         => /\ (~db[i].isActive /\ WrongPassword(i))
                 => /\ resp'.message = "Invalid email or password"
                    /\ db'[i].loginAttempts = db[i].loginAttempts + 1
            /\ (~db[i].isActive /\ RightPassword(i))
                 => resp'.message = "Account is inactive"
            /\ (db[i].isActive /\ ~db[i].isVerified /\ RightPassword(i))
                 => resp'.message = "Please verify your account first"]_vars

\* C13: every gate failure of the login has its own error reason: two
\* logins that fail at different gates (unknown email, locked account, wrong
\* password, inactive account, unverified account) get different results
\* from loginAuthor.
C13_DistinctReasons ==
  \A e \in Emails, f \in Emails, p \in Passwords, q \in Passwords :
    (/\ FailingGate(e, p) # "none" /\ FailingGate(f, q) # "none"
     /\ FailingGate(e, p) # FailingGate(f, q))
      => LoginResult(e, p) # LoginResult(f, q)

\* C14: a failed login does not tell whether the email is registered: for
\* any password, the status and message for an email no account has equal
\* those for a registered account and a wrong password, in every lockout
\* state of that account.
C14_NoEnumeration ==
  \A i \in 1..Len(db), e \in Emails, p \in Passwords :
    (/\ \A j \in 1..Len(db) : db[j].email # e
     /\ db[i].password # Hash(p))
      => LoginResult(db[i].email, p) = LoginResult(e, p)

\* C17: verifyJWT lets a request through only when a token is present, it
\* verifies as an access token, the account of the embedded id exists and
\* that account is not soft-deleted; in every other case it fails with an
\* error and the handler behind it is not reached, so a token issued before
\* a soft delete is refused after it.
C17_OnlyValidTokensPass ==
  resp.op = "verifyJWT"
    => /\ resp.status = 200
            => /\ resp.tokens.kind = "access"
               /\ now < resp.tokens.exp
               /\ resp.tokens._id \in 1..Len(db)
               /\ ~db[resp.tokens._id].isDeleted
               /\ resp.id = resp.tokens._id
       /\ resp.status # 200 => (resp.status = 401 /\ resp.id = 0)

\* C17 witness: the access token a login returned is refused, still
\* unexpired, after its account was soft-deleted.
C17_Witness ==
  /\ resp.op = "verifyJWT" /\ resp.status = 401
  /\ resp.tokens.kind = "access" /\ now < resp.tokens.exp
  /\ resp.tokens._id \in 1..Len(db)
  /\ db[resp.tokens._id].isDeleted

\* C18: verifyJWT never changes state: accepting or rejecting, every stored
\* field of every account is the same after the call as before it.
C18_AuthorizeMutatesNothing ==
  [][resp'.op = "verifyJWT" => db' = db]_vars

\* C18 witness: a request was let through at a later tick than the login
\* that issued its token, and lastActive is still the time of that login.
C18_Witness ==
  /\ resp.op = "verifyJWT" /\ resp.status = 200
  /\ now > resp.tokens.iat
  /\ db[resp.id].lastActive = DateVal(resp.tokens.iat)

\* The stored refresh token is cleared: unset, or null.
Cleared(token) == token \in {Undefined, JsNull}

\* C19: logout of an existing account clears the stored refresh token and
\* stamps lastActive; it is idempotent (logging out an account that has no
\* stored refresh token succeeds); and the refresh token stays cleared until
\* the next successful login.  For authors (logoutAuthor) and admins
\* (adminLogout).
C19_LogoutClearsAndStamps ==
  [][/\ \A i \in 1..Len(db) :
          /\ (resp'.op = "logout" /\ resp'.id = i)
               => /\ Cleared(db'[i].refreshToken)
                  /\ db'[i].lastActive = DateVal(now)
          /\ LogoutAuthor(i).resp.status = 200
          /\ (Cleared(db[i].refreshToken) /\ ~Cleared(db'[i].refreshToken))
               => IssuesTokens(i)
     /\ \A a \in 1..Len(admins) :
          /\ (resp'.op = "adminLogout" /\ resp'.id = a)
               => /\ Cleared(admins'[a].refreshToken)
                  /\ admins'[a].lastActive = DateVal(now)
          /\ AdminLogout(a).resp.status = 200
          /\ (Cleared(admins[a].refreshToken) /\ ~Cleared(admins'[a].refreshToken))
               => (resp'.op = "adminLogin" /\ resp'.tokens.kind = "pair"
                   /\ resp'.id = a)]_vars

\* The login request q has returned a token pair for account i.
Returned(q, i) == q.pc = "done" /\ q.status = 200 /\ q.id = i

\* C15: an account holds at most one refresh token: the refresh-token save
\* that ends a successful login leaves the stored refreshToken equal to the
\* token that login returns, replacing the one before; and in every
\* interleaving of overlapping logins the stored value, unless cleared, is
\* the token one of the logins returned.
C15_OneRefreshToken ==
  [][\A i \in 1..Len(db) :
       /\ \A r \in DOMAIN reqs :
            (reqs[r].pc = "signed" /\ Returned(reqs'[r], i))
              => db'[i].refreshToken = reqs'[r].tokens.refreshToken
       /\ \/ Cleared(db'[i].refreshToken)
          \/ \E r \in DOMAIN reqs :
               /\ Returned(reqs'[r], i)
               /\ db'[i].refreshToken = reqs'[r].tokens.refreshToken]_vars

\* C15 witness: two logins of one account overlapped; the one that signed
\* its tokens first saved last, and its refresh token is the one stored.
C15_Witness ==
  \E r \in DOMAIN reqs, q \in DOMAIN reqs :
    /\ Returned(reqs[r], 1) /\ Returned(reqs[q], 1)
    /\ reqs[r].tokens.refreshToken.iat < reqs[q].tokens.refreshToken.iat
    /\ db[1].refreshToken = reqs[r].tokens.refreshToken

\* The login request q has got past recordLogin.
Recorded(q, i) ==
  /\ q.id = i
  /\ q.pc \in {"recorded", "signed"} \/ (q.pc = "done" /\ q.status = 200)

\* h is a prefix of g.
IsPrefix(h, g) == Len(h) <= Len(g) /\ SubSeq(g, 1, Len(h)) = h

Hashed(doc) == \E p \in Passwords : doc.password = Hash(p)

\* C21: in every reachable state the stored password of an account is a hash
\* and never the plaintext, and every operation that changes the stored
\* password also sets passwordChangedAt to the time of the change, on create
\* and on every later update path.
C21_PasswordHashedAndStamped ==
  [][\A i \in 1..Len(db') :
       /\ Hashed(db'[i])
       /\ (i > Len(db) \/ db'[i].password # db[i].password)
            => db'[i].passwordChangedAt = DateVal(now)]_vars


\* Request r makes its failed attempt on account i in this step: it had
\* passed the lock gate and its password did not match.
FailedAttempt(r, i) ==
  reqs[r].pc = "mismatch" /\ reqs'[r].pc = "done" /\ reqs[r].id = i

\* C22: overlapping failed logins on one account give a correct lockout
\* count: every failed attempt that passed the lock gate adds exactly one to
\* the stored loginAttempts, whatever the other requests do in between, and
\* whenever the count it leaves has reached the threshold the account is
\* Locked.
C22_NoLostIncrement ==
  [][\A i \in 1..Len(db), r \in DOMAIN reqs :
       FailedAttempt(r, i)
         => /\ db'[i].loginAttempts = db[i].loginAttempts + 1
            /\ db'[i].loginAttempts >= Threshold => LockedAfter(i)]_vars

\* C26: no token pair is issued for an account by a login that acts after
\* another request's failed attempt has stored a lockUntil in the future:
\* when a login returns its tokens the account is not Locked.
C26_NoTokensOnceLocked ==
  [][\A i \in 1..Len(db), r \in DOMAIN reqs :
       (reqs[r].pc = "signed" /\ Returned(reqs'[r], i)) => ~Locked(db[i])]_vars

\* C27: the counter reset of a successful login is not undone by a failed
\* attempt that read the account before the reset: when such an attempt
\* finishes after the login has returned its tokens, and no other request is
\* in progress, the account is not Locked.
C27_ResetNotUndone ==
  [][\A i \in 1..Len(db), r \in DOMAIN reqs :
       (/\ FailedAttempt(r, i)
        /\ reqs[r].readBeforeReset
        /\ \E a \in DOMAIN reqs : Returned(reqs[a], i)
        /\ \A x \in DOMAIN reqs : reqs'[x].pc = "done")
         => ~LockedAfter(i)]_vars

\* C28: logoutAuthor called with an id that matches no account reports the
\* NotFound (404) error with the not-found message, and changes no account.
C28_LogoutUnknownIsNotFound ==
  \A authorId \in 1..(MaxAccounts + 1) :
    FindById(db, authorId) = 0
      => /\ LogoutAuthor(authorId).resp.status = 404
         /\ LogoutAuthor(authorId).resp.message = "Author not found"
         /\ LogoutAuthor(authorId).db = db


\* C23: deleting an Author or a Category is a flag flip: after a successful
\* deleteAuthorById / deleteCategoryById the record is still stored, with
\* isDeleted = true and nothing else changed; a deleted record is returned
\* by no get-by-id and no list, and update and a second delete of it report
\* NotFound; and no operation removes a record or sets isDeleted back to
\* false.
C23_SoftDelete ==
  [][/\ Len(db') >= Len(db)
     /\ Len(cats') >= Len(cats)
     /\ \A i \in 1..Len(db) :
          /\ db[i].isDeleted => db'[i].isDeleted
          /\ (resp'.op = "delete" /\ resp'.status = 200 /\ resp'.id = i)
               => db'[i] = [db[i] EXCEPT !.isDeleted = TRUE]
          /\ db[i].isDeleted
               => /\ GetAuthorById(i).status = 404
                  /\ \A filters \in Filters : i \notin GetAllAuthors(filters).found
                  /\ \A updateData \in UpdateData :
                       /\ UpdateAuthorById(i, updateData).resp.status = 404
                       /\ UpdateAuthorById(i, updateData).db = db
                  /\ DeleteAuthorById(i).resp.status = 404
     /\ \A c \in 1..Len(cats) :
          /\ cats[c].isDeleted => cats'[c].isDeleted
          /\ (resp'.op = "deleteCategory" /\ resp'.status = 200 /\ resp'.id = c)
               => cats'[c] = [cats[c] EXCEPT !.isDeleted = TRUE]
          /\ cats[c].isDeleted
               => /\ GetCategoryById(c).status = 404
                  /\ \A filters \in Filters :
                       c \notin GetAllCategories(filters).found
                  /\ c \notin GetCategoriesWithNewsCount.found
                  /\ \A body \in CategoryUpdates :
                       /\ UpdateCategoryById(c, ValidatedUpdate(body)).resp.status
                            = 404
                       /\ UpdateCategoryById(c, ValidatedUpdate(body)).cats = cats
                  /\ DeleteCategoryById(c).resp.status = 404]_vars

\* C23 witness: an author and a category have been soft-deleted, and the
\* second delete of the category was answered with NotFound.
C23_Witness ==
  /\ \E i \in 1..Len(db) : db[i].isDeleted
  /\ \E c \in 1..Len(cats) : cats[c].isDeleted
  /\ resp.op = "deleteCategory" /\ resp.status = 404

\* C29: updateCategoryById applies every field it is given: an update of an
\* existing, not deleted category that carries isActive = false leaves the
\* stored isActive false, one that carries true leaves it true, and the
\* fields an update does not carry keep their stored values.
C29_UpdateAppliesGivenFields ==
  \A c \in 1..Len(cats), body \in CategoryUpdates :
    LET r == UpdateCategoryById(c, ValidatedUpdate(body))
    IN  r.resp.status = 200
          => /\ body.isActive # Undefined => r.cats[c].isActive = body.isActive.b
             /\ body.isActive = Undefined => r.cats[c].isActive = cats[c].isActive
             /\ body.order = Undefined => r.cats[c].order = cats[c].order
             /\ body.title = Undefined => r.cats[c].title = cats[c].title

\* C30: in every reachable state the slug of a category is the slug form of
\* its current title (lower case, runs of other characters replaced by "-",
\* a leading and a trailing "-" removed), after createCategory and after
\* every updateCategoryById that changes the title.
C30_SlugFollowsTitle ==
  \A c \in 1..Len(cats) : cats[c].slug = Slugify(cats[c].title)


\* C24: users are soft-deleted like the other accounts: after a successful
\* deleteUserById(id) the stored user has isDeleted = true, getUserById(id)
\* reports NotFound, getAllUsers does not list the user, and a second
\* deleteUserById(id) reports NotFound.
C24_UserSoftDelete ==
  (resp.op = "deleteUser" /\ resp.status = 200)
    => /\ "isDeleted" \in DOMAIN users[resp.id]
       /\ users[resp.id].isDeleted = TRUE
       /\ GetUserById(resp.id).status = 404
       /\ \A filters \in Filters : resp.id \notin GetAllUsers(filters).found
       /\ DeleteUserById(resp.id).resp.status = 404


\* A createAuthor call arrives at slot r in this step.
Arrives(r) == reqs[r].pc \in {"idle", "done"} /\ reqs'[r] # reqs[r]

\* C25: email and phone identify an author uniquely: after any sequence of
\* createAuthor, updateAuthorById and deleteAuthorById calls, overlapping
\* createAuthor calls with the same email or phone included, no two authors
\* that are not deleted share an email or a phone; and a createAuthor call
\* that arrives when an author not deleted has its email or phone reports
\* Conflict (409) and stores nothing.
C25_UniqueIdentity ==
  [][/\ \A i \in 1..Len(db'), j \in 1..Len(db') :
          (i # j /\ ~db'[i].isDeleted /\ ~db'[j].isDeleted)
            => /\ db'[i].email # db'[j].email
               /\ db'[i].phone # db'[j].phone
     /\ \A r \in DOMAIN reqs :
          (/\ Arrives(r)
           /\ \E i \in 1..Len(db) :
                /\ ~db[i].isDeleted
                /\ db[i].email = reqs'[r].email \/ db[i].phone = reqs'[r].phone)
            => reqs'[r].pc = "done" /\ reqs'[r].status = 409 /\ db' = db]_vars

\* C25 witness: two createAuthor calls with one email overlapped, both
\* passed the duplicate check, and the collection holds one author.
C25_Witness ==
  /\ Len(db) = 1
  /\ \E r \in DOMAIN reqs, q \in DOMAIN reqs :
       /\ reqs[r].pc = "done" /\ reqs[r].status = 201
       /\ reqs[q].pc = "done" /\ reqs[q].status = 500
       /\ reqs[r].email = reqs[q].email


====
